---- MODULE Spec2Model ----
(***************************************************************************)
(* PageSage book index: the reference/index engine of src/database.py      *)
(* (IndexDatabase), the handlers of src/web_app.py that compose its calls, *)
(* and the grouping/sorting of src/formatter.py (IndexFormatter).          *)
(*                                                                         *)
(* Texts (reference strings, term names, book numbers, range strings) are  *)
(* sequences of one-character strings, so that parsing and formatting are  *)
(* computed, character by character, as the code computes them.            *)
(***************************************************************************)
EXTENDS Integers, Sequences, FiniteSets, TLC

\* ------------------------------------------------------------------ bounds

\* Largest page number that a reference or exclusion text of the store
\* specification mentions.
MaxPage == 3
\* AUTOINCREMENT ids handed out before the store specification stops inserting.
MaxTermId == 2
MaxRefId == 2
MaxPropId == 1
\* Rows of gap_exclusions / books the store specification lets exist at once.
MaxExcl == 1
MaxBooks == 2

\* SQL NULL / Python None (every stored number is >= 0, page counts >= -1).
None == -9

\* ------------------------------------------------------------- characters

Digit == {"0", "1", "2", "3", "4", "5", "6", "7", "8", "9"}

DigitChars == <<"0", "1", "2", "3", "4", "5", "6", "7", "8", "9">>

DigitVal(c) == (CHOOSE i \in 1..10 : DigitChars[i] = c) - 1

\* str.isspace() over the characters the model uses
IsSpace(c) == c = " " \/ c = "\n"

\* the regular expression class \d+
IsDigits(s) == Len(s) > 0 /\ \A i \in 1..Len(s) : s[i] \in Digit

\* int(s) for a text of decimal digits
RECURSIVE int(_)
int(s) ==
    IF Len(s) = 0 THEN 0
    ELSE 10 * int(SubSeq(s, 1, Len(s) - 1)) + DigitVal(s[Len(s)])

\* str(n) for an integer n >= 0
RECURSIVE str(_)
str(n) ==
    IF n < 10 THEN <<DigitChars[n + 1]>>
    ELSE str(n \div 10) \o <<DigitChars[(n % 10) + 1]>>

\* str.strip(): leading and trailing whitespace removed
RECURSIVE lstrip(_)
lstrip(s) ==
    IF Len(s) > 0 /\ IsSpace(s[1]) THEN lstrip(Tail(s)) ELSE s

RECURSIVE rstrip(_)
rstrip(s) ==
    IF Len(s) > 0 /\ IsSpace(s[Len(s)]) THEN rstrip(SubSeq(s, 1, Len(s) - 1)) ELSE s

strip(s) == rstrip(lstrip(s))

\* index of the first occurrence of c in s, 0 when there is none
IndexOf(s, c) ==
    IF \E i \in 1..Len(s) : s[i] = c
    THEN CHOOSE i \in 1..Len(s) : s[i] = c /\ \A j \in 1..(i - 1) : s[j] # c
    ELSE 0

\* --------------------------------------------------------- parse_reference

\* re.match(r'^(\d+):(\d+)(?:-(\d+))?$', s): the three groups, group 3 being
\* <<>> when the optional part did not take part in the match.
Match(s) ==
    LET c == IndexOf(s, ":")
        g1 == SubSeq(s, 1, c - 1)
        rest == SubSeq(s, c + 1, Len(s))
        d == IndexOf(rest, "-")
        g2 == IF d = 0 THEN rest ELSE SubSeq(rest, 1, d - 1)
        g3 == IF d = 0 THEN <<>> ELSE SubSeq(rest, d + 1, Len(rest))
    IN  IF c > 0 /\ IsDigits(g1) /\ IsDigits(g2) /\ (d = 0 \/ IsDigits(g3))
        THEN [matched |-> TRUE, g1 |-> g1, g2 |-> g2, g3 |-> g3]
        ELSE [matched |-> FALSE, g1 |-> <<>>, g2 |-> <<>>, g3 |-> <<>>]

\* Python truth value of an Optional[int]
Truthy(n) == n # None /\ n # 0

RangeGuard(page_start, page_end) == Truthy(page_end) /\ page_end < page_start

Parsed(book, page_start, page_end) ==
    [ok |-> TRUE, err |-> "", book |-> book,
     page_start |-> page_start, page_end |-> page_end]

Raised(err) ==
    [ok |-> FALSE, err |-> err, book |-> None,
     page_start |-> None, page_end |-> None]

parse_reference(ref_str) ==
    LET m == Match(strip(ref_str))
        book == int(m.g1)
        page_start == int(m.g2)
        page_end == IF Len(m.g3) > 0 THEN int(m.g3) ELSE None
    IN  IF ~m.matched THEN Raised("InvalidFormat")
        ELSE IF RangeGuard(page_start, page_end) THEN Raised("InvalidRange")
        ELSE Parsed(book, page_start, page_end)

\* ------------------------------------------------------------------ inputs

UpperChars == <<"A", "B", "C", "D", "E", "F", "G", "H", "I", "J", "K", "L", "M",
                "N", "O", "P", "Q", "R", "S", "T", "U", "V", "W", "X", "Y", "Z">>

LowerChars == <<"a", "b", "c", "d", "e", "f", "g", "h", "i", "j", "k", "l", "m",
                "n", "o", "p", "q", "r", "s", "t", "u", "v", "w", "x", "y", "z">>

\* SQLite's NOCASE collation folds the 26 ASCII upper-case letters only.
nocase_char(c) ==
    IF \E i \in 1..26 : UpperChars[i] = c
    THEN LowerChars[CHOOSE i \in 1..26 : UpperChars[i] = c]
    ELSE c

nocase(s) == [i \in 1..Len(s) |-> nocase_char(s[i])]

\* Term names the callers pass: two names differing in case only, and a third.
Names == {<<"a", "p">>, <<"A", "p">>, <<"Z">>}

\* Note texts (after the handler's strip): empty and non-empty.
Notes == {<<>>, <<"n">>}

\* books.book_number is TEXT: "1", and "01", which int() reads as 1 too.
BookNumbers == {<<"1">>, <<"0", "1">>}

\* Reference texts the callers of the store specification pass: single pages
\* and ranges on two books, a one-page range, a range whose end is 0, a
\* reversed range, and a text that is no reference.
RefTexts ==
    { <<"1", ":", "1">>, <<"1", ":", "2">>, <<"2", ":", "1">>,
      <<"1", ":", "1", "-", "2">>, <<"1", ":", "2", "-", "2">>,
      <<"1", ":", "2", "-", "0">>, <<"1", ":", "2", "-", "1">>, <<"x">> }

\* delete_entry's reference=None (and the handler's empty string)
NoReference == <<>>

\* parse_reference and the NOCASE folding over the texts the specifications
\* pass, evaluated once
Parse == [t \in RefTexts \cup {NoReference} |-> parse_reference(t)]

\* Names of the term-name specification: case variants of an ASCII name
\* and of a name that begins with a letter outside ASCII.
CaseNames == {<<"a", "p">>, <<"A", "P">>, <<"é", "t">>, <<"É", "T">>}

NoCase == [t \in Names \cup CaseNames |-> nocase(t)]

\* ------------------------------------------------------------------- state

VARIABLES
    db,       \* the database file: one field per table and sqlite_sequence row
    last,     \* the call that produced this state: [op, ret]
    result,   \* the value the last call returned, when it is more than a flag
    input     \* the argument of the pure-function specifications

vars == <<db, last, result, input>>

\* db.terms:       rows [id, term, notes]
\* db.refs:        rows of page_references
\*                 [id, term_id, book_number, page_start, page_end]
\* db.books:       rows [book_number, page_count]
\* db.exclusions:  rows of gap_exclusions [book_number, page_start, page_end]
\* db.book_props:  rows of book_custom_properties [id, book_number, display_order]
\* db.props:       rows of custom_properties [id, display_order]
\* db.nextTermId, db.nextRefId, db.nextPropId, db.nextCustomId: the
\*                 AUTOINCREMENT sequences

\* IndexDatabase.__init__ / init_database on a fresh file: empty tables.
init_database ==
    [terms |-> {}, refs |-> {}, books |-> {}, exclusions |-> {},
     book_props |-> {}, props |-> {},
     nextTermId |-> 1, nextRefId |-> 1, nextPropId |-> 1, nextCustomId |-> 1]

Call(op, ret) == [op |-> op, ret |-> ret]

\* what a method leaves and returns (or the exception it raises)
Outcome(d, ret) == [db |-> d, ret |-> ret]

Init ==
    /\ db = init_database
    /\ last = Call("init", "None")
    /\ result = <<>>
    /\ input = <<>>

\* SELECT id FROM terms WHERE term = ? COLLATE NOCASE
TermRows(d, term) == {t \in d.terms : NoCase[t.term] = NoCase[term]}

TermId(d, term) == (CHOOSE t \in TermRows(d, term) : TRUE).id

\* ---------------------------------------------------------------- add_entry

\* DELETE FROM gap_exclusions
\*   WHERE book_number = ? AND page_start <= ? AND page_end >= ?
\* with (str(book_number), page, page)
remove_exclusions_for_page(excl, book_number, page) ==
    {x \in excl : ~(x.book_number = str(book_number)
                    /\ x.page_start <= page /\ x.page_end >= page)}

\* the pages add_entry calls remove_exclusions_for_page for
PagesOfAdd(page_start, page_end) ==
    IF Truthy(page_end) THEN page_start..page_end ELSE {page_start}

RECURSIVE RemoveExclusionsForPages(_, _, _)
RemoveExclusionsForPages(excl, book_number, pages) ==
    IF pages = {} THEN excl
    ELSE LET page == CHOOSE p \in pages : \A q \in pages : p <= q
         IN  RemoveExclusionsForPages(
                 remove_exclusions_for_page(excl, book_number, page),
                 book_number, pages \ {page})

\* UNIQUE(term_id, book_number, page_start, page_end): SQLite holds two NULLs
\* to be distinct, so a row whose page_end is NULL never collides.
UniqueViolation(rows, term_id, book, page_start, page_end) ==
    /\ page_end # None
    /\ \E r \in rows : /\ r.term_id = term_id
                       /\ r.book_number = book
                       /\ r.page_start = page_start
                       /\ r.page_end = page_end

\* AddEntryParsed that removes the overlapping exclusions before the insert
AddEntryParsedClearsFirst(d, term, p) ==
    LET found == TermRows(d, term) # {}
        term_id == IF found THEN TermId(d, term) ELSE d.nextTermId
        d1 == IF found THEN d
              ELSE [d EXCEPT !.terms = @ \cup {[id |-> d.nextTermId,
                                                term |-> term, notes |-> <<>>]},
                             !.nextTermId = @ + 1]
        d2 == [d1 EXCEPT !.exclusions = RemoveExclusionsForPages(
                             @, p.book, PagesOfAdd(p.page_start, p.page_end))]
    IN  IF UniqueViolation(d.refs, term_id, p.book, p.page_start, p.page_end)
        THEN Outcome(d2, "False")
        ELSE Outcome(
                 [d2 EXCEPT !.refs = @ \cup {[id |-> d.nextRefId,
                                              term_id |-> term_id,
                                              book_number |-> p.book,
                                              page_start |-> p.page_start,
                                              page_end |-> p.page_end]},
                            !.nextRefId = @ + 1],
                 "True")

AddEntryParsed(d, term, p) ==
    LET found == TermRows(d, term) # {}
        term_id == IF found THEN TermId(d, term) ELSE d.nextTermId
        d1 == IF found THEN d
              ELSE [d EXCEPT !.terms = @ \cup {[id |-> d.nextTermId,
                                                term |-> term, notes |-> <<>>]},
                             !.nextTermId = @ + 1]
    IN  IF UniqueViolation(d.refs, term_id, p.book, p.page_start, p.page_end)
        THEN \* sqlite3.IntegrityError: return False
             Outcome(d1, "False")
        ELSE Outcome(
                 [d1 EXCEPT !.refs = @ \cup {[id |-> d.nextRefId,
                                              term_id |-> term_id,
                                              book_number |-> p.book,
                                              page_start |-> p.page_start,
                                              page_end |-> p.page_end]},
                            !.nextRefId = @ + 1,
                            !.exclusions = RemoveExclusionsForPages(
                                @, p.book, PagesOfAdd(p.page_start, p.page_end))],
                 "True")

add_entry(d, term, reference) ==
    LET p == Parse[reference]
    IN  IF ~p.ok THEN Outcome(d, p.err) ELSE AddEntryParsed(d, term, p)

\* ------------------------------------------------------------- delete_entry

\* MatchesReference that takes an absent page_end for a wildcard
MatchesReferenceAnyEnd(r, term_id, book, page_start, page_end) ==
    /\ r.term_id = term_id
    /\ r.book_number = book
    /\ r.page_start = page_start
    /\ page_end # None => r.page_end = page_end

\* DELETE FROM page_references WHERE term_id = ? AND book_number = ?
\*   AND page_start = ? AND (page_end = ? OR (page_end IS NULL AND ? IS NULL))
MatchesReference(r, term_id, book, page_start, page_end) ==
    /\ r.term_id = term_id
    /\ r.book_number = book
    /\ r.page_start = page_start
    /\ \/ (r.page_end # None /\ page_end # None /\ r.page_end = page_end)
       \/ (r.page_end = None /\ page_end = None)

\* delete_entry_cleanup that deletes no term
delete_entry_cleanup_none(term_rows, ref_rows) == term_rows

\* DELETE FROM terms WHERE id NOT IN (SELECT DISTINCT term_id FROM page_references)
delete_entry_cleanup(term_rows, ref_rows) ==
    {t \in term_rows : t.id \in {r.term_id : r \in ref_rows}}

DeleteEntryRows(d, term_id, gone) ==
    Outcome([d EXCEPT !.refs = @ \ gone,
                      !.terms = delete_entry_cleanup(@, d.refs \ gone)],
            IF gone # {} THEN "True" ELSE "False")

delete_entry(d, term, reference) ==
    IF TermRows(d, term) = {} THEN Outcome(d, "False")
    ELSE LET term_id == TermId(d, term)
             p == Parse[reference]
         IN  IF Len(reference) > 0
             THEN IF ~p.ok
                  THEN \* ValueError leaves the with block: rollback
                       Outcome(d, p.err)
                  ELSE DeleteEntryRows(d, term_id,
                           {r \in d.refs : MatchesReference(r, term_id, p.book,
                                               p.page_start, p.page_end)})
             ELSE DeleteEntryRows(d, term_id,
                                  {r \in d.refs : r.term_id = term_id})

\* ------------------------------------------------------------- update_notes

update_notes(d, term, notes) ==
    IF TermRows(d, term) # {}
    THEN Outcome([d EXCEPT !.terms = {IF t.id = TermId(d, term)
                                      THEN [t EXCEPT !.notes = notes]
                                      ELSE t : t \in @}],
                 "True")
    ELSE Outcome([d EXCEPT !.terms = @ \cup {[id |-> d.nextTermId,
                                              term |-> term, notes |-> notes]},
                           !.nextTermId = @ + 1],
                 "True")

\* ---------------------------------------------------------- get_gap_analysis

\* Code points of the characters the model uses, in ASCII order, and behind
\* them the two letters outside ASCII.
AsciiOrder ==
    <<" ", "#", "-", "0", "1", "2", "3", "4", "5", "6", "7", "8", "9", ":">>
    \o UpperChars \o <<"_">> \o LowerChars \o <<"É", "é">>

Ord(c) == CHOOSE i \in 1..Len(AsciiOrder) : AsciiOrder[i] = c

\* a < b for two texts (binary collation, Python str comparison)
RECURSIVE StrLess(_, _)
StrLess(a, b) ==
    IF Len(b) = 0 THEN FALSE
    ELSE IF Len(a) = 0 THEN TRUE
    ELSE IF a[1] # b[1] THEN Ord(a[1]) < Ord(b[1])
    ELSE StrLess(Tail(a), Tail(b))

BookBefore(a, b) == StrLess(a.book_number, b.book_number)

\* SELECT book_number, book_name, page_count FROM books ORDER BY book_number
RECURSIVE BooksInOrder(_)
BooksInOrder(rows) ==
    IF rows = {} THEN <<>>
    ELSE LET first == CHOOSE r \in rows : \A q \in rows \ {r} : BookBefore(r, q)
         IN  <<first>> \o BooksInOrder(rows \ {first})

get_all_books(d) == BooksInOrder(d.books)

ExclusionBefore(a, b) ==
    \/ a.page_start < b.page_start
    \/ (a.page_start = b.page_start /\ a.page_end < b.page_end)

RECURSIVE ExclusionsInOrder(_)
ExclusionsInOrder(rows) ==
    IF rows = {} THEN <<>>
    ELSE LET first == CHOOSE r \in rows :
                          \A q \in rows \ {r} : ExclusionBefore(r, q)
         IN  <<first>> \o ExclusionsInOrder(rows \ {first})

\* SELECT page_start, page_end FROM gap_exclusions
\*   WHERE book_number = ? ORDER BY page_start
get_gap_exclusions(d, book_number) ==
    ExclusionsInOrder(
        {[page_start |-> x.page_start, page_end |-> x.page_end] :
            x \in {y \in d.exclusions : y.book_number = book_number}})

\* int(book_number) raises ValueError unless the text is a decimal number
IntRaises(book_number) == ~IsDigits(strip(book_number))

\* SELECT DISTINCT r.page_start, r.page_end FROM page_references r
\*   JOIN terms t ON r.term_id = t.id WHERE r.book_number = int(book_number)
BookReferences(d, book_number) ==
    {<<r.page_start, r.page_end>> :
        r \in {q \in d.refs : /\ \E t \in d.terms : t.id = q.term_id
                              /\ q.book_number = int(strip(book_number))}}

\* SELECT COUNT(DISTINCT t.term) over the same join
BookTermCount(d, book_number) ==
    Cardinality({nocase(t.term) :
        t \in {u \in d.terms : \E r \in d.refs :
                  /\ r.term_id = u.id
                  /\ r.book_number = int(strip(book_number))}})

\* referenced_pages: a range when page_end is truthy, else the single page
ReferencedPages(references) ==
    UNION {IF Truthy(ref[2]) THEN ref[1]..ref[2] ELSE {ref[1]} :
              ref \in references}

\* excluded_pages: range(page_start, page_end + 1) of every exclusion
ExcludedPages(excl) ==
    UNION {excl[i].page_start..excl[i].page_end : i \in 1..Len(excl)}

\* for page in range(1, page_count + 1): neither referenced nor excluded
RECURSIVE GapsFrom(_, _, _, _)
GapsFrom(page, page_count, referenced_pages, excluded_pages) ==
    IF page > page_count THEN <<>>
    ELSE (IF page \notin referenced_pages /\ page \notin excluded_pages
          THEN <<page>> ELSE <<>>)
         \o GapsFrom(page + 1, page_count, referenced_pages, excluded_pages)

\* FindGaps with the last page left out (range(1, page_count))
FindGapsShort(page_count, referenced_pages, excluded_pages) ==
    GapsFrom(1, page_count - 1, referenced_pages, excluded_pages)

FindGaps(page_count, referenced_pages, excluded_pages) ==
    GapsFrom(1, page_count, referenced_pages, excluded_pages)

\* str(range_start) or f"{range_start}-{range_end}"
FormatRange(range_start, range_end) ==
    IF range_start = range_end THEN str(range_start)
    ELSE str(range_start) \o <<"-">> \o str(range_end)

\* the loop "for i in range(1, len(gaps))" from index i on, with the current
\* run range_start..range_end, and "Add the last range" after it
RECURSIVE ConsolidateFrom(_, _, _, _)
ConsolidateFrom(gaps, i, range_start, range_end) ==
    IF i > Len(gaps) THEN <<FormatRange(range_start, range_end)>>
    ELSE IF gaps[i] = range_end + 1
    THEN ConsolidateFrom(gaps, i + 1, range_start, gaps[i])
    ELSE <<FormatRange(range_start, range_end)>>
         \o ConsolidateFrom(gaps, i + 1, gaps[i], gaps[i])

\* Consolidate that closes a run at every page
ConsolidateNoMerge(gaps) == [i \in 1..Len(gaps) |-> str(gaps[i])]

Consolidate(gaps) ==
    IF Len(gaps) = 0 THEN <<>> ELSE ConsolidateFrom(gaps, 2, gaps[1], gaps[1])

FormatExcluded(excl) ==
    [i \in 1..Len(excl) |-> FormatRange(excl[i].page_start, excl[i].page_end)]

BookResult(book_number, page_count, gap_ranges, excluded_ranges, term_count) ==
    [raised |-> FALSE, book_number |-> book_number, page_count |-> page_count,
     gap_ranges |-> gap_ranges, excluded_ranges |-> excluded_ranges,
     term_count |-> term_count]

BookRaised(book_number) ==
    [raised |-> TRUE, book_number |-> book_number, page_count |-> 0,
     gap_ranges |-> <<>>, excluded_ranges |-> <<>>, term_count |-> 0]

\* NoPageCount that tests for zero only
NoPageCountZeroOnly(page_count) == page_count = 0

\* "not page_count or page_count <= 0"
NoPageCount(page_count) == ~Truthy(page_count) \/ page_count <= 0

\* one iteration of the loop over the books
AnalyzeBook(d, book) ==
    IF NoPageCount(book.page_count)
    THEN BookResult(book.book_number, 0, <<>>, <<>>, 0)
    ELSE IF IntRaises(book.book_number) THEN BookRaised(book.book_number)
    ELSE LET excl == get_gap_exclusions(d, book.book_number)
             gaps == FindGaps(book.page_count,
                              ReferencedPages(BookReferences(d, book.book_number)),
                              ExcludedPages(excl))
         IN  BookResult(book.book_number, book.page_count, Consolidate(gaps),
                        FormatExcluded(excl),
                        BookTermCount(d, book.book_number))

\* the list of results, or ValueError when an iteration raises
get_gap_analysis(d) ==
    LET all == get_all_books(d)
        results == [i \in 1..Len(all) |-> AnalyzeBook(d, all[i])]
    IN  IF \E i \in 1..Len(all) : results[i].raised
        THEN [raised |-> TRUE, results |-> <<>>]
        ELSE [raised |-> FALSE, results |-> results]

\* ------------------------------------------------------ store specification

\* The AUTOINCREMENT sequences stay within the bounds of the model.
WithinBounds(d) ==
    /\ d.nextTermId <= MaxTermId + 1
    /\ d.nextRefId <= MaxRefId + 1
    /\ d.nextPropId <= MaxPropId + 1
    /\ Cardinality(d.exclusions) <= MaxExcl
    /\ Cardinality(d.books) <= MaxBooks

Step(op, out) ==
    /\ WithinBounds(out.db)
    /\ db' = out.db
    /\ last' = Call(op, out.ret)
    /\ result' = <<>>
    /\ UNCHANGED input

AddEntry ==
    \E term \in Names, reference \in RefTexts :
        \E out \in {add_entry(db, term, reference)} : Step("add_entry", out)

DeleteEntry ==
    \E term \in Names, reference \in RefTexts \cup {NoReference} :
        \E out \in {delete_entry(db, term, reference)} : Step("delete_entry", out)

UpdateNotes ==
    \E term \in Names, notes \in Notes :
        \E out \in {update_notes(db, term, notes)} : Step("update_notes", out)

Next ==
    \/ AddEntry
    \/ DeleteEntry
    \/ UpdateNotes

Spec == Init /\ [][Next]_vars

\* ------------------------------------------------- properties of the store

\* the stored references of `term` equal to the parsed reference p, an
\* absent pageEnd being equal to an absent pageEnd only
StoredEqual(d, term, p) ==
    IF TermRows(d, term) = {} THEN {}
    ELSE {r \in d.refs : /\ r.term_id = TermId(d, term)
                         /\ r.book_number = p.book
                         /\ r.page_start = p.page_start
                         /\ r.page_end = p.page_end}

RefsOfTerm(d, term_id) == {r \in d.refs : r.term_id = term_id}

\* C1: for every term and every valid reference text r (single page or
\* range), when add_entry(term, r) returns True, calling add_entry(term, r)
\* again returns False and leaves exactly one stored reference equal to r.
C1_AddTwice ==
    [][last' = Call("add_entry", "True") =>
         \A term \in Names, reference \in RefTexts :
            db' = add_entry(db, term, reference).db
            => LET second == add_entry(db', term, reference)
               IN  /\ second.ret = "False"
                   /\ Cardinality(StoredEqual(second.db, term,
                                               Parse[reference])) = 1]_vars

\* C2: when delete_entry removes the last reference of a term whose note is
\* non-empty, the term record and its note still exist afterwards.
C2_NotedTermSurvives ==
    [][last' = Call("delete_entry", "True") =>
         \A term \in Names, reference \in RefTexts \cup {NoReference} :
            \A t \in TermRows(db, term) :
               (/\ db' = delete_entry(db, term, reference).db
                /\ t.notes # <<>>
                /\ RefsOfTerm(db', t.id) = {})
               => t \in db'.terms]_vars

\* C3: when delete_entry removes the last reference of a term whose note is
\* empty, no term record with that name exists afterwards.
C3_OrphanRemoved ==
    [][last' = Call("delete_entry", "True") =>
         \A term \in Names, reference \in RefTexts \cup {NoReference} :
            \A t \in TermRows(db, term) :
               (/\ db' = delete_entry(db, term, reference).db
                /\ t.notes = <<>>
                /\ RefsOfTerm(db', t.id) = {})
               => TermRows(db', term) = {}]_vars

\* a delete_entry call has just removed the only references there were, and
\* the term that held them
C3_Witness ==
    /\ last = Call("delete_entry", "True")
    /\ db.nextRefId > 1
    /\ db.refs = {}
    /\ db.terms = {}

\* -------------------------------------------- gap analysis specification

\* Largest page count of a book of the gap-analysis specification.
MaxGapPage == 4

\* book numbers of the analysed book: canonical, with a leading zero, and
\* one that is no number
GapBookNumbers == {<<"1">>, <<"0", "1">>, <<"A">>}

GapPageCounts == {None, -1, 0} \cup (1..(MaxGapPage + 1))

\* (page_start, page_end) of the references on book 1: single pages, ranges
\* (some reaching past the last page), and ranges whose end is 0
GapRefShapes ==
    {<<ps, pe>> \in (1..MaxGapPage) \X ({None, 0} \cup (1..(MaxGapPage + 1))) :
        pe \in {None, 0} \/ pe >= ps}

\* (page_start, page_end) of the exclusions of the analysed book
GapExclShapes ==
    {<<ps, pe>> \in (1..MaxGapPage) \X (1..MaxGapPage) : pe >= ps}
    \cup {<<2, 1>>}

Absent == <<0, 0>>

ShapeKey(x) == x[1] * 100 + x[2]

\* the store with one analysed book, a second book without page count, up
\* to two references on book 1 and up to one exclusion
GapStore(book_number, page_count, a, b, x) ==
    [init_database EXCEPT
        !.terms = {[id |-> 1, term |-> <<"a", "p">>, notes |-> <<"n">>],
                   [id |-> 2, term |-> <<"Z">>, notes |-> <<"n">>]},
        !.nextTermId = 3,
        !.refs = {[id |-> 1, term_id |-> 1, book_number |-> 1,
                   page_start |-> r[1], page_end |-> r[2]] :
                      r \in {a} \ {Absent}}
                 \cup
                 {[id |-> 2, term_id |-> 2, book_number |-> 1,
                   page_start |-> r[1], page_end |-> r[2]] :
                      r \in {b} \ {Absent}},
        !.nextRefId = 3,
        !.books = {[book_number |-> book_number, page_count |-> page_count],
                   [book_number |-> <<"2">>, page_count |-> None]},
        !.exclusions = {[book_number |-> book_number,
                         page_start |-> r[1], page_end |-> r[2]] :
                            r \in {x} \ {Absent}}]

InitGap ==
    /\ \E book_number \in GapBookNumbers, page_count \in GapPageCounts,
          a \in GapRefShapes \cup {Absent}, b \in GapRefShapes \cup {Absent},
          x \in GapExclShapes \cup {Absent} :
            /\ ShapeKey(a) < ShapeKey(b) \/ b = Absent
            /\ db = GapStore(book_number, page_count, a, b, x)
    /\ last = Call("init", "None")
    /\ result = <<>>
    /\ input = <<>>

GetGapAnalysis ==
    /\ last.op = "init"
    /\ \E out \in {get_gap_analysis(db)} :
          /\ result' = out.results
          /\ last' = Call("get_gap_analysis",
                          IF out.raised THEN "ValueError" ELSE "list")
    /\ UNCHANGED <<db, input>>

NextGap ==
    \/ GetGapAnalysis

SpecGap == InitGap /\ [][NextGap]_vars

\* ------------------------------------------- properties of gap analysis

\* the pages a stored reference covers: those of the text it is displayed
\* as, "b:s" when page_end is absent (or 0) and "b:s-e" otherwise
PagesOfReference(r) ==
    IF r.page_end = None \/ r.page_end = 0 THEN {r.page_start}
    ELSE r.page_start..r.page_end

CoveredPages(d, book) ==
    UNION {PagesOfReference(r) :
              r \in {q \in d.refs : q.book_number = int(strip(book.book_number))}}

ExcludedPagesOf(d, book) ==
    UNION {x.page_start..x.page_end :
              x \in {y \in d.exclusions : y.book_number = book.book_number}}

GapPageSet(d, book) ==
    {pg \in 1..book.page_count :
        pg \notin CoveredPages(d, book) /\ pg \notin ExcludedPagesOf(d, book)}

\* first and last page of a range string "p" or "s-e"
RangeFirst(text) ==
    IF IndexOf(text, "-") = 0 THEN int(text)
    ELSE int(SubSeq(text, 1, IndexOf(text, "-") - 1))

RangeLast(text) ==
    IF IndexOf(text, "-") = 0 THEN int(text)
    ELSE int(SubSeq(text, IndexOf(text, "-") + 1, Len(text)))

PagesOfRanges(ranges) ==
    UNION {RangeFirst(ranges[k])..RangeLast(ranges[k]) : k \in 1..Len(ranges)}

HasPageCount(book) == book.page_count # None /\ book.page_count > 0

\* the entry of the returned result for a book
EntryOf(book) ==
    CHOOSE e \in {result[i] : i \in 1..Len(result)} :
        e.book_number = book.book_number

Returned == last = Call("get_gap_analysis", "list")

Listed(book) == \E i \in 1..Len(result) : result[i].book_number = book.book_number

C5_MaximalRuns ==
    Returned =>
        \A book \in db.books :
            HasPageCount(book) =>
                LET ranges == EntryOf(book).gap_ranges
                IN  /\ PagesOfRanges(ranges) = GapPageSet(db, book)
                    /\ \A k \in 1..Len(ranges) :
                          LET first == RangeFirst(ranges[k])
                              final == RangeLast(ranges[k])
                          IN  /\ first <= final
                              /\ first = final => ranges[k] = str(first)
                              /\ first < final =>
                                    ranges[k] = str(first) \o <<"-">> \o str(final)
                    /\ \A k \in 1..(Len(ranges) - 1) :
                          RangeFirst(ranges[k + 1]) >= RangeLast(ranges[k]) + 2

\* a result with a one-page run followed by a longer run
C5_Witness ==
    /\ Returned
    /\ \E book \in db.books :
          /\ HasPageCount(book)
          /\ Len(EntryOf(book).gap_ranges) >= 2
          /\ \E k \in 1..Len(EntryOf(book).gap_ranges) :
                IndexOf(EntryOf(book).gap_ranges[k], "-") = 0
          /\ \E k \in 1..Len(EntryOf(book).gap_ranges) :
                IndexOf(EntryOf(book).gap_ranges[k], "-") > 0

EmptyResult(book) == BookResult(book.book_number, 0, <<>>, <<>>, 0)

\* C9: for a book whose pageCount is absent, zero or negative the analysis
\* of the book does not raise and yields no gap ranges, no excluded ranges
\* and term count 0, whatever references and exclusions the book has; the
\* book is listed with that result in the report, and get_gap_analysis
\* raises only over a book that has a positive pageCount.
C9_NoPageCount ==
    /\ \A book \in db.books :
          ~HasPageCount(book) =>
              /\ AnalyzeBook(db, book) = EmptyResult(book)
              /\ Returned => Listed(book) /\ EntryOf(book) = EmptyResult(book)
    /\ last = Call("get_gap_analysis", "ValueError") =>
          \E book \in db.books : HasPageCount(book) /\ IntRaises(book.book_number)
    /\ last.op = "get_gap_analysis" /\ (\A book \in db.books : ~HasPageCount(book))
          => Returned

\* a returned result listing a book without page count that has references
\* and an exclusion
C9_Witness ==
    /\ Returned
    /\ \E book \in db.books :
          /\ ~HasPageCount(book)
          /\ Listed(book)
          /\ ~IntRaises(book.book_number)
          /\ \E r \in db.refs : r.book_number = int(strip(book.book_number))
          /\ \E x \in db.exclusions : x.book_number = book.book_number

\* ------------------------------------------------- parse specification

\* Longest reference text of the parse specification.
MaxTextLen == 5

ParseAlphabet == {"0", "1", "2", ":", "-", " "}

ParseTexts == UNION {[1..n -> ParseAlphabet] : n \in 0..MaxTextLen}

InitParse ==
    /\ db = init_database
    /\ last = Call("init", "None")
    /\ result = <<>>
    /\ input \in ParseTexts

ParseReference ==
    /\ last.op = "init"
    /\ \E p \in {parse_reference(input)} :
          /\ result' = p
          /\ last' = Call("parse_reference", IF p.ok THEN "tuple" ELSE p.err)
    /\ UNCHANGED <<db, input>>

NextParse ==
    \/ ParseReference

SpecParse == InitParse /\ [][NextParse]_vars

\* the text is "b:s-e" with the number e below the number s
ReversedRange(text) ==
    LET m == Match(strip(text))
    IN  m.matched /\ Len(m.g3) > 0 /\ int(m.g3) < int(m.g2)

\* C10: parse_reference raises the range error for every text "b:s-e" with
\* pageEnd < pageStart, e = 0 included, and never returns a triple whose
\* pageEnd is present and smaller than pageStart.
C10_ReversedRangeRejected ==
    last.op = "parse_reference" =>
        /\ ReversedRange(input) => last.ret = "InvalidRange"
        /\ result.ok =>
              result.page_end = None \/ result.page_end >= result.page_start

\* -------------------------------------------------------------- exporters

\* str.upper() / str.lower() of one character of the model's alphabet:
\* Python folds every cased letter, the letter "é" being one outside ASCII
upper(c) ==
    IF \E i \in 1..26 : LowerChars[i] = c
    THEN UpperChars[CHOOSE i \in 1..26 : LowerChars[i] = c]
    ELSE IF c = "é" THEN "É"
    ELSE c

lower_char(c) == IF c = "É" THEN "é" ELSE nocase_char(c)

lower(s) == [i \in 1..Len(s) |-> lower_char(s[i])]

isalpha(c) ==
    \/ \E i \in 1..26 : UpperChars[i] = c \/ LowerChars[i] = c
    \/ c \in {"é", "É"}

isupper(c) == (\E i \in 1..26 : UpperChars[i] = c) \/ c = "É"

normalize_first_letter(text) ==
    IF Len(text) = 0 THEN "#"
    ELSE LET first_char == upper(text[1])
         IN  IF isalpha(first_char) /\ isupper(first_char) THEN first_char
             ELSE "#"

\* (first_letter != '#', term.lower())
sort_key(term) ==
    <<normalize_first_letter(term) # "#", lower(term)>>

\* (first_letter == '#', term.lower()), the key of the PDF and Excel exporters
sort_key_pdf(term) ==
    <<normalize_first_letter(term) = "#", lower(term)>>

\* tuple comparison of two keys: False < True, then the texts
KeyLess(a, b) ==
    \/ (~a[1] /\ b[1])
    \/ (a[1] = b[1] /\ StrLess(a[2], b[2]))

\* sorted(entries, key=...): stable, so an entry goes behind the entries
\* whose key is not greater than its own
RECURSIVE InsertByKey(_, _, _)
InsertByKey(done, term, pdf) ==
    LET key(t) == IF pdf THEN sort_key_pdf(t) ELSE sort_key(t)
    IN  IF Len(done) = 0 THEN <<term>>
        ELSE IF KeyLess(key(term), key(done[1]))
        THEN <<term>> \o done
        ELSE <<done[1]>> \o InsertByKey(Tail(done), term, pdf)

RECURSIVE SortedFrom(_, _, _, _)
SortedFrom(entries, i, done, pdf) ==
    IF i > Len(entries) THEN done
    ELSE SortedFrom(entries, i + 1, InsertByKey(done, entries[i], pdf), pdf)

sorted(entries, pdf) == SortedFrom(entries, 1, <<>>, pdf)

\* the terms of the entries in the order an exporter renders them
format_latex_style(entries) == sorted(entries, FALSE)
format_plain_text(entries) == sorted(entries, FALSE)
format_markdown(entries) == sorted(entries, FALSE)
format_pdf(entries) == sorted(entries, TRUE)
format_csv(entries) == sorted(entries, FALSE)
format_excel(entries) == sorted(entries, TRUE)
format_notes_text(notes) == sorted(notes, FALSE)
format_notes_csv(notes) == sorted(notes, FALSE)
format_notes_pdf(notes) == sorted(notes, TRUE)
format_notes_latex(notes) == sorted(notes, FALSE)
format_notes_markdown(notes) == sorted(notes, FALSE)
format_notes_excel(notes) == sorted(notes, TRUE)

\* ---------------------------------------------- exporter specification

\* Longest list of entries handed to an exporter.
MaxEntries == 4

\* Zebra, apple, 7-Up, Banana and a term that begins with an underscore
FmtTerms ==
    { <<"Z", "e", "b", "r", "a">>, <<"a", "p", "p", "l", "e">>,
      <<"7", "-", "U", "p">>, <<"B", "a", "n", "a", "n", "a">>,
      <<"_", "x">> }

\* lists of entries with distinct terms, in any order
EntryLists ==
    {e \in UNION {[1..n -> FmtTerms] : n \in 0..MaxEntries} :
        \A i, j \in 1..Len(e) : i # j => e[i] # e[j]}

InitFmt ==
    /\ db = init_database
    /\ last = Call("init", "None")
    /\ result = <<>>
    /\ input \in EntryLists

Export(op, rendered) ==
    /\ last.op = "init"
    /\ result' = rendered
    /\ last' = Call(op, "str")
    /\ UNCHANGED <<db, input>>

FormatLatexStyle == Export("format_latex_style", format_latex_style(input))
FormatPlainText == Export("format_plain_text", format_plain_text(input))
FormatMarkdown == Export("format_markdown", format_markdown(input))
FormatPdf == Export("format_pdf", format_pdf(input))
FormatCsv == Export("format_csv", format_csv(input))
FormatExcel == Export("format_excel", format_excel(input))
FormatNotesText == Export("format_notes_text", format_notes_text(input))
FormatNotesCsv == Export("format_notes_csv", format_notes_csv(input))
FormatNotesPdf == Export("format_notes_pdf", format_notes_pdf(input))
FormatNotesLatex == Export("format_notes_latex", format_notes_latex(input))
FormatNotesMarkdown == Export("format_notes_markdown", format_notes_markdown(input))
FormatNotesExcel == Export("format_notes_excel", format_notes_excel(input))

NextFmt ==
    \/ FormatLatexStyle
    \/ FormatPlainText
    \/ FormatMarkdown
    \/ FormatPdf
    \/ FormatCsv
    \/ FormatExcel
    \/ FormatNotesText
    \/ FormatNotesCsv
    \/ FormatNotesPdf
    \/ FormatNotesLatex
    \/ FormatNotesMarkdown
    \/ FormatNotesExcel

SpecFmt == InitFmt /\ [][NextFmt]_vars

Exporters ==
    {"format_latex_style", "format_plain_text", "format_markdown",
     "format_pdf", "format_csv", "format_excel", "format_notes_text",
     "format_notes_csv", "format_notes_pdf", "format_notes_latex",
     "format_notes_markdown", "format_notes_excel"}

HashGroup(term) == normalize_first_letter(term) = "#"

\* C7: every exporter renders each '#' entry after every lettered entry, and
\* the entries of each of the two classes in case-insensitive term order.
C7_HashLast ==
    last.op \in Exporters =>
        \A i, j \in 1..Len(result) :
            i < j =>
                /\ ~(HashGroup(result[i]) /\ ~HashGroup(result[j]))
                /\ HashGroup(result[i]) = HashGroup(result[j])
                   => ~StrLess(lower(result[j]), lower(result[i]))

\* ------------------------------------------------------------------ books

\* INSERT INTO books: book_number is UNIQUE
add_book(d, book_number, page_count) ==
    IF \E b \in d.books : b.book_number = book_number
    THEN Outcome(d, "False")
    ELSE Outcome([d EXCEPT !.books = @ \cup {[book_number |-> book_number,
                                              page_count |-> page_count]}],
                 "True")

\* /api/books/add: page_count = int(page_count) if page_count else 0
api_add_book(d, book_number, page_count) ==
    add_book(d, book_number, IF Truthy(page_count) THEN page_count ELSE 0)

\* INSERT INTO gap_exclusions: UNIQUE(book_number, page_start, page_end)
add_gap_exclusion(d, book_number, page_start, page_end) ==
    LET row == [book_number |-> book_number, page_start |-> page_start,
                page_end |-> page_end]
    IN  IF row \in d.exclusions THEN Outcome(d, "False")
        ELSE Outcome([d EXCEPT !.exclusions = @ \cup {row}], "True")

\* page_range.split('-'): parts[0] and parts[1]
SplitFirst(page_range) ==
    SubSeq(page_range, 1, IndexOf(page_range, "-") - 1)

SplitSecond(page_range) ==
    LET rest == SubSeq(page_range, IndexOf(page_range, "-") + 1, Len(page_range))
    IN  IF IndexOf(rest, "-") = 0 THEN rest
        ELSE SubSeq(rest, 1, IndexOf(rest, "-") - 1)

\* /api/gap-exclusions/add: "10" or "10-15"
api_add_gap_exclusion(d, book_number, page_range) ==
    IF IndexOf(page_range, "-") # 0
    THEN IF IntRaises(SplitFirst(page_range)) \/ IntRaises(SplitSecond(page_range))
         THEN Outcome(d, "ValueError")
         ELSE add_gap_exclusion(d, book_number,
                                int(strip(SplitFirst(page_range))),
                                int(strip(SplitSecond(page_range))))
    ELSE IF IntRaises(page_range) THEN Outcome(d, "ValueError")
    ELSE add_gap_exclusion(d, book_number, int(strip(page_range)),
                           int(strip(page_range)))

\* SELECT COALESCE(MAX(display_order), -1) + 1 ... WHERE book_number = ?
NextDisplayOrder(rows, book_number) ==
    LET orders == {p.display_order : p \in {q \in rows : q.book_number = book_number}}
    IN  IF orders = {} THEN 0
        ELSE (CHOOSE m \in orders : \A o \in orders : o <= m) + 1

add_book_custom_property(d, book_number) ==
    Outcome([d EXCEPT !.book_props =
                          @ \cup {[id |-> d.nextPropId, book_number |-> book_number,
                                   display_order |-> NextDisplayOrder(@, book_number)]},
                      !.nextPropId = @ + 1],
            "id")

\* POST /api/books/<book_number>/properties: int(book_number)
api_add_book_property(d, book_number) ==
    IF IntRaises(book_number) THEN Outcome(d, "ValueError")
    ELSE add_book_custom_property(d, int(strip(book_number)))

\* an INTEGER column compared with a bound text: SQLite converts a text that
\* reads as a number before it compares, so '01' equals 1
AffinityEqual(column, text) ==
    IsDigits(strip(text)) /\ int(strip(text)) = column

\* DELETE FROM book_custom_properties WHERE book_number = ?
delete_book_custom_properties(d, book_number) ==
    Outcome([d EXCEPT !.book_props =
                          {p \in @ : ~AffinityEqual(p.book_number, book_number)}],
            "True")

\* DELETE FROM terms WHERE id NOT IN (SELECT DISTINCT term_id FROM page_references)
\*   AND (notes IS NULL OR notes = '')
delete_book_cleanup(term_rows, ref_rows) ==
    {t \in term_rows : t.id \in {r.term_id : r \in ref_rows} \/ t.notes # <<>>}

delete_book(d, book_number) ==
    IF IntRaises(book_number)
    THEN \* int(book_number) raises ValueError: rollback
         Outcome(d, "ValueError")
    ELSE LET refs == {r \in d.refs : r.book_number # int(strip(book_number))}
         IN  Outcome([d EXCEPT !.refs = refs,
                               !.exclusions = {x \in @ : x.book_number # book_number},
                               !.terms = delete_book_cleanup(@, refs),
                               !.books = {b \in @ : b.book_number # book_number}],
                     IF \E b \in d.books : b.book_number = book_number
                     THEN "True" ELSE "False")

\* api_delete_book without the deletion of the book's properties
api_delete_book_only(d, book_number) == delete_book(d, book_number)

\* /api/books/delete: the book's custom properties first, then the book
api_delete_book(d, book_number) ==
    delete_book(delete_book_custom_properties(d, book_number).db, book_number)

\* ---------------------------------------------------- books specification

BookNames == {<<"a", "p">>, <<"Z">>}

\* a range on book 1 and a page of another book
BookRefTexts == {<<"1", ":", "1", "-", "2">>, <<"2", ":", "1">>}

\* the page count the form sends
BookPageCounts == {MaxPage}

\* the page ranges typed for a gap exclusion
ExclusionTexts == {<<"1">>, <<"1", "-", "2">>}

\* book numbers of a deletion: the registered ones and one that is no number
DeleteBookNumbers == BookNumbers \cup {<<"A">>}

ApiAddBook ==
    \E book_number \in BookNumbers, page_count \in BookPageCounts :
        \E out \in {api_add_book(db, book_number, page_count)} :
            Step("api_add_book", out)

ApiAddGapExclusion ==
    \E book_number \in BookNumbers, page_range \in ExclusionTexts :
        \E out \in {api_add_gap_exclusion(db, book_number, page_range)} :
            Step("api_add_gap_exclusion", out)

ApiAddBookProperty ==
    \E book_number \in BookNumbers :
        \E out \in {api_add_book_property(db, book_number)} :
            Step("api_add_book_property", out)

AddEntryOfBook ==
    \E term \in BookNames, reference \in BookRefTexts :
        \E out \in {add_entry(db, term, reference)} : Step("add_entry", out)

UpdateNotesOfBook ==
    \E term \in BookNames :
        \E out \in {update_notes(db, term, <<"n">>)} : Step("update_notes", out)

DeleteBook ==
    \E book_number \in DeleteBookNumbers :
        \E out \in {delete_book(db, book_number)} : Step("delete_book", out)

ApiDeleteBook ==
    \E book_number \in DeleteBookNumbers :
        \E out \in {api_delete_book(db, book_number)} :
            Step("api_delete_book", out)

NextBooks ==
    \/ ApiAddBook
    \/ ApiAddGapExclusion
    \/ ApiAddBookProperty
    \/ AddEntryOfBook
    \/ UpdateNotesOfBook
    \/ DeleteBook
    \/ ApiDeleteBook

SpecBooks == Init /\ [][NextBooks]_vars

\* ------------------------------------------------- properties of the books

\* the registered books that gap analysis matches with the integer `book`
BooksOfNumber(d, book) ==
    {b \in d.books : ~IntRaises(b.book_number) /\ int(strip(b.book_number)) = book}

\* the pages of an added reference: page_start..page_end, or page_start alone
AddedPages(p) ==
    IF p.page_end = None THEN {p.page_start} ELSE p.page_start..p.page_end

\* C6: after add_entry returns True, no exclusion of the referenced book
\* covers a page of the added range, and gap analysis reports none of those
\* pages as a gap.
C6_AddClearsExclusions ==
    [][last' = Call("add_entry", "True") =>
         \A term \in BookNames, reference \in BookRefTexts :
            db' = add_entry(db, term, reference).db
            => \A book \in BooksOfNumber(db', Parse[reference].book) :
                  /\ \A x \in db'.exclusions :
                        x.book_number = book.book_number
                        => AddedPages(Parse[reference])
                              \cap (x.page_start..x.page_end) = {}
                  /\ AddedPages(Parse[reference])
                        \cap PagesOfRanges(AnalyzeBook(db', book).gap_ranges) = {}]_vars

\* what the deletion of book b leaves, from the store d to the store d2
Cascaded(d, d2, b, with_props) ==
    /\ \A r \in d2.refs : r.book_number # int(strip(b))
    /\ \A x \in d2.exclusions : x.book_number # b
    /\ with_props => \A p \in d2.book_props : p.book_number # int(strip(b))
    /\ \A t \in d2.terms : RefsOfTerm(d2, t.id) # {} \/ t.notes # <<>>
    /\ \A t \in d.terms :
          (t.notes # <<>> \/ \E r \in d.refs : /\ r.term_id = t.id
                                               /\ r.book_number # int(strip(b)))
          => t \in d2.terms

Registered(d, b) == \E book \in d.books : book.book_number = b

\* C8 (as stated): after db.delete_book, or the /api/books/delete handler,
\* deletes book b, no reference, exclusion or book-scoped property of b
\* remains, no term is left without references and without a note, and the
\* terms with a reference on another book or a note are kept.
C8_DeleteBookCascade ==
    [][/\ last'.op \in {"delete_book", "api_delete_book"}
       /\ last'.ret = "True"
       => \A b \in DeleteBookNumbers :
             /\ Registered(db, b)
             /\ db' = (IF last'.op = "delete_book" THEN delete_book(db, b)
                       ELSE api_delete_book(db, b)).db
             => Cascaded(db, db', b, TRUE)]_vars

\* C8 (amended): the /api/books/delete handler leaves no reference, exclusion
\* or book-scoped property of the deleted book b, no term without references
\* and without a note, and keeps the terms with a reference on another book
\* or a note; db.delete_book alone does the same except that it leaves the
\* book-scoped properties of b.
C8_ApiDeleteBookCascade ==
    [][/\ last'.op \in {"delete_book", "api_delete_book"}
       /\ last'.ret = "True"
       => \A b \in DeleteBookNumbers :
             /\ Registered(db, b)
             /\ db' = (IF last'.op = "delete_book" THEN delete_book(db, b)
                       ELSE api_delete_book(db, b)).db
             => Cascaded(db, db', b, last'.op = "api_delete_book")]_vars

\* the handler deleted a book: its property and a term without a note are
\* gone, a term is kept
C8_Witness ==
    /\ last = Call("api_delete_book", "True")
    /\ db.nextPropId > 1
    /\ db.book_props = {}
    /\ db.nextRefId > 1
    /\ Cardinality(db.terms) = 1
    /\ db.nextTermId = 3

\* ----------------------------------------- get_all_entries, recent entries

\* f"{book}:{page_start}-{page_end}" if page_end else f"{book}:{page_start}",
\* always without the end
ReferenceTextSingle(book, page_start, page_end) ==
    str(book) \o <<":">> \o str(page_start)

\* f"{book}:{page_start}-{page_end}" if page_end else f"{book}:{page_start}"
ReferenceText(book, page_start, page_end) ==
    IF Truthy(page_end)
    THEN str(book) \o <<":">> \o str(page_start) \o <<"-">> \o str(page_end)
    ELSE str(book) \o <<":">> \o str(page_start)

RowText(r) == ReferenceText(r.book_number, r.page_start, r.page_end)

\* ORDER BY ..., r.book_number, r.page_start: a is not behind b
RowNotAfter(a, b) ==
    \/ a.book_number < b.book_number
    \/ (a.book_number = b.book_number /\ a.page_start <= b.page_start)

\* the orders in which the query may return the rows of one term: rows that
\* agree on (book_number, page_start) come in either order
RowOrders(rows) ==
    {s \in [1..Cardinality(rows) -> rows] :
        /\ \A i, j \in 1..Cardinality(rows) : i # j => s[i] # s[j]
        /\ \A i, j \in 1..Cardinality(rows) : i < j => RowNotAfter(s[i], s[j])}

\* the terms that keep an entry ("Remove terms with no references"), in the
\* order of sorted(entries.items(), key=lambda x: x[0].lower())
RECURSIVE TermsInOrder(_)
TermsInOrder(rows) ==
    IF rows = {} THEN <<>>
    ELSE LET first == CHOOSE t \in rows :
                          \A u \in rows \ {t} : ~StrLess(lower(u.term), lower(t.term))
         IN  <<first>> \o TermsInOrder(rows \ {first})

\* EntryTerms that keeps the terms without references
EntryTermsAll(d) == TermsInOrder(d.terms)

EntryTerms(d) ==
    TermsInOrder({t \in d.terms : \E r \in d.refs : r.term_id = t.id})

\* the lists get_all_entries may return: one (term, [references]) per term
get_all_entries(d) ==
    LET ts == EntryTerms(d)
        orders(i) == RowOrders({r \in d.refs : r.term_id = ts[i].id})
    IN  {[i \in 1..Len(ts) |->
             [term |-> ts[i].term,
              references |-> [k \in 1..Len(f[i]) |-> RowText(f[i][k])]]] :
            f \in {g \in [1..Len(ts) -> UNION {orders(i) : i \in 1..Len(ts)}] :
                      \A i \in 1..Len(ts) : g[i] \in orders(i)}}

\* ORDER BY r.id DESC LIMIT ?: the rows joined with their term, newest first
RECURSIVE RecentFrom(_, _, _)
RecentFrom(d, rows, limit) ==
    IF rows = {} \/ limit = 0 THEN <<>>
    ELSE LET newest == CHOOSE r \in rows : \A q \in rows : q.id <= r.id
             t == CHOOSE u \in d.terms : u.id = newest.term_id
         IN  <<[term |-> t.term, reference |-> RowText(newest), id |-> newest.id]>>
             \o RecentFrom(d, rows \ {newest}, limit - 1)

get_recent_entries(d, limit) ==
    RecentFrom(d, {r \in d.refs : \E t \in d.terms : t.id = r.term_id}, limit)

\* ------------------------------------------- round-trip specification

\* add_entry on the text of the round-trip specification
add_entry_text(d, term, reference) ==
    LET p == parse_reference(reference)
    IN  IF ~p.ok THEN Outcome(d, p.err) ELSE AddEntryParsed(d, term, p)

InitRound ==
    /\ db = init_database
    /\ last = Call("init", "None")
    /\ result = <<>>
    /\ input \in ParseTexts

AddEntryText ==
    /\ last.op = "init"
    /\ \E out \in {add_entry_text(db, <<"Z">>, input)} :
          /\ db' = out.db
          /\ last' = Call("add_entry", out.ret)
    /\ UNCHANGED <<result, input>>

GetAllEntries ==
    /\ last.op = "add_entry"
    /\ \E entries \in get_all_entries(db) :
          /\ result' = entries
          /\ last' = Call("get_all_entries", "list")
    /\ UNCHANGED <<db, input>>

GetRecentEntries ==
    /\ last.op = "add_entry"
    /\ result' = get_recent_entries(db, 5)
    /\ last' = Call("get_recent_entries", "list")
    /\ UNCHANGED <<db, input>>

NextRound ==
    \/ AddEntryText
    \/ GetAllEntries
    \/ GetRecentEntries

SpecRound == InitRound /\ [][NextRound]_vars

\* the texts the display shows after the reference was stored
Displayed ==
    IF last.op = "get_all_entries"
    THEN UNION {{result[i].references[k] : k \in 1..Len(result[i].references)} :
                   i \in 1..Len(result)}
    ELSE {result[i].reference : i \in 1..Len(result)}

\* the text matches the grammar and its pageEnd is not below its pageStart
ValidReference(text) ==
    LET m == Match(strip(text))
    IN  m.matched /\ (Len(m.g3) = 0 \/ int(m.g3) >= int(m.g2))

\* a number written without a leading zero
Canonical(digits) == Len(digits) = 1 \/ digits[1] # "0"

CanonicalReference(text) ==
    LET m == Match(strip(text))
    IN  /\ ValidReference(text)
        /\ Canonical(m.g1) /\ Canonical(m.g2)
        /\ Len(m.g3) = 0 \/ Canonical(m.g3)

\* r itself, or "b:p" for a degenerate range "b:p-p"
RoundTripTexts(text) ==
    LET m == Match(strip(text))
    IN  {strip(text)}
        \cup (IF Len(m.g3) > 0 /\ int(m.g3) = int(m.g2)
              THEN {m.g1 \o <<":">> \o m.g2} ELSE {})

Rendered == last.op \in {"get_all_entries", "get_recent_entries"}

\* C11 (as stated): every valid reference text r stored by add_entry is
\* displayed by get_all_entries and get_recent_entries as r again, a
\* degenerate range "b:p-p" as "b:p-p" or "b:p".
C11_RoundTrip ==
    Rendered /\ ValidReference(input) =>
        Displayed # {} /\ Displayed \subseteq RoundTripTexts(input)

\* C11 (amended): every valid reference text r whose numbers are written
\* without leading zeros is displayed, after add_entry stored it, as r with
\* the surrounding whitespace removed, a degenerate range "b:p-p" as
\* "b:p-p" or "b:p".
C11_RoundTripCanonical ==
    Rendered /\ CanonicalReference(input) =>
        Displayed # {} /\ Displayed \subseteq RoundTripTexts(input)

\* a stored range and a stored single page are displayed
C11_Witness ==
    /\ Rendered
    /\ CanonicalReference(input)
    /\ Len(input) = MaxTextLen
    /\ IndexOf(input, "-") > 0
    /\ Displayed = {input}

\* --------------------------------------- update_reference, clear_all_data

\* the UNIQUE constraint while UPDATE rewrites the matched rows one by one:
\* a rewritten row collides with an untouched row that holds the new values,
\* or with a matched row rewritten before it
UpdateCollides(rows, matched, term_id, book, page_start, page_end) ==
    /\ page_end # None
    /\ matched # {}
    /\ \/ \E r \in rows \ matched : /\ r.term_id = term_id
                                    /\ r.book_number = book
                                    /\ r.page_start = page_start
                                    /\ r.page_end = page_end
       \/ Cardinality(matched) >= 2

UpdateReferenceParsed(d, term_id, old, new) ==
    LET matched == {r \in d.refs : MatchesReference(r, term_id, old.book,
                                       old.page_start, old.page_end)}
    IN  IF UpdateCollides(d.refs, matched, term_id, new.book,
                          new.page_start, new.page_end)
        THEN \* sqlite3.IntegrityError leaves the with block: rollback
             Outcome(d, "IntegrityError")
        ELSE Outcome([d EXCEPT !.refs =
                         (@ \ matched)
                         \cup {[r EXCEPT !.book_number = new.book,
                                         !.page_start = new.page_start,
                                         !.page_end = new.page_end] :
                                  r \in matched}],
                     IF matched # {} THEN "True" ELSE "False")

update_reference(d, term, old_reference, new_reference) ==
    IF TermRows(d, term) = {} THEN Outcome(d, "False")
    ELSE IF ~Parse[old_reference].ok THEN Outcome(d, Parse[old_reference].err)
    ELSE IF ~Parse[new_reference].ok THEN Outcome(d, Parse[new_reference].err)
    ELSE UpdateReferenceParsed(d, TermId(d, term), Parse[old_reference],
                               Parse[new_reference])

\* DELETE FROM page_references; DELETE FROM terms
clear_all_data(d) ==
    Outcome([d EXCEPT !.refs = {}, !.terms = {}], "True")

\* ------------------------------------------- references specification

\* reference texts of the references specification: two single pages, a
\* range, a range whose end is 0, a reversed range and a text that is no
\* reference
UpdateRefTexts ==
    { <<"1", ":", "1">>, <<"2", ":", "1">>, <<"1", ":", "1", "-", "2">>,
      <<"1", ":", "2", "-", "0">>, <<"1", ":", "2", "-", "1">>, <<"x">> }


AddEntryOfRefs ==
    \E term \in BookNames, reference \in UpdateRefTexts :
        \E out \in {add_entry(db, term, reference)} : Step("add_entry", out)

UpdateReference ==
    \E term \in BookNames, old_reference \in UpdateRefTexts,
       new_reference \in UpdateRefTexts :
        \E out \in {update_reference(db, term, old_reference, new_reference)} :
            Step("update_reference", out)

DeleteEntryOfRefs ==
    \E term \in Names, reference \in UpdateRefTexts \cup {NoReference} :
        \E out \in {delete_entry(db, term, reference)} : Step("delete_entry", out)

DeleteBookOfRefs ==
    \E book_number \in BookNumbers :
        \E out \in {delete_book(db, book_number)} : Step("delete_book", out)

ClearAllData ==
    \E out \in {clear_all_data(db)} : Step("clear_all_data", out)

NextRefs ==
    \/ AddEntryOfRefs
    \/ UpdateReference
    \/ DeleteEntryOfRefs
    \/ DeleteBookOfRefs
    \/ ClearAllData

SpecRefs == Init /\ [][NextRefs]_vars

\* --------------------------------------------- properties of references

\* two stored rows stand for the same reference of the same term
SameReference(a, b) ==
    /\ a.term_id = b.term_id
    /\ a.book_number = b.book_number
    /\ a.page_start = b.page_start
    /\ a.page_end = b.page_end

\* C12: in every state reached by add_entry, update_reference, delete_entry,
\* delete_book and clear_all_data no term has two stored references with
\* identical (book, pageStart, pageEnd).
C12_NoDuplicateReference ==
    \A a, b \in db.refs : SameReference(a, b) => a = b

\* ------------------------------------------- term-name specification

CaseRefTexts == {<<"1", ":", "1">>, <<"1", ":", "2">>, <<"2", ":", "1">>}

AddEntryOfName ==
    \E term \in CaseNames, reference \in CaseRefTexts :
        \E out \in {add_entry(db, term, reference)} : Step("add_entry", out)

UpdateNotesOfName ==
    \E term \in CaseNames, notes \in Notes :
        \E out \in {update_notes(db, term, notes)} : Step("update_notes", out)

GetAllEntriesOfNames ==
    /\ \E entries \in get_all_entries(db) :
          /\ result' = entries
          /\ last' = Call("get_all_entries", "list")
    /\ UNCHANGED <<db, input>>

NextNames ==
    \/ AddEntryOfName
    \/ UpdateNotesOfName
    \/ GetAllEntriesOfNames

SpecNames == Init /\ [][NextNames]_vars

\* the term records whose name is a case variant of `term`
VariantsOf(d, term) == {t \in d.terms : lower(t.term) = lower(term)}

\* C13: after any sequence of add_entry and update_notes calls there is at
\* most one term record per case-insensitive name, a call with any case
\* variant of the name resolves to that record, and a record keeps the
\* casing of the call that created it.
C13_OneRecordPerName ==
    [][/\ \A term \in CaseNames :
             /\ Cardinality(VariantsOf(db', term)) <= 1
             /\ TermRows(db', term) = VariantsOf(db', term)
       /\ \A t \in db.terms : \E u \in db'.terms : u.id = t.id /\ u.term = t.term
       /\ \A u \in db'.terms :
             (\A t \in db.terms : t.id # u.id) =>
                \E term \in CaseNames, reference \in CaseRefTexts, notes \in Notes :
                   /\ u.term = term
                   /\ db' \in {add_entry(db, term, reference).db,
                               update_notes(db, term, notes).db}]_vars

\* ------------------------------------------------- properties of notes

\* C14: update_notes(name, text) creates a missing term only when text is
\* non-empty, and update_notes(name, '') on a term with zero references
\* leaves no term record for that name.
C14_EmptyNoteNoTerm ==
    [][last'.op = "update_notes" =>
         \A term \in Names :
            db' = update_notes(db, term, <<>>).db
            => /\ TermRows(db, term) = {} => TermRows(db', term) = {}
               /\ \A t \in TermRows(db, term) :
                     RefsOfTerm(db, t.id) = {} => TermRows(db', term) = {}]_vars

\* ------------------------------------------ first-letter specification

\* Longest text handed to normalize_first_letter.
MaxLetterLen == 2

\* ASCII letters of both cases, a digit, punctuation, a space, and the two
\* letters outside ASCII
LetterAlphabet == {"a", "Z", "7", "_", " ", "é", "É"}

LetterTexts == UNION {[1..n -> LetterAlphabet] : n \in 0..MaxLetterLen}

InitLetter ==
    /\ db = init_database
    /\ last = Call("init", "None")
    /\ result = <<>>
    /\ input \in LetterTexts

NormalizeFirstLetter ==
    /\ last.op = "init"
    /\ result' = normalize_first_letter(input)
    /\ last' = Call("normalize_first_letter", "str")
    /\ UNCHANGED <<db, input>>

NextLetter ==
    \/ NormalizeFirstLetter

SpecLetter == InitLetter /\ [][NextLetter]_vars

AsciiLetters == {UpperChars[i] : i \in 1..26} \cup {LowerChars[i] : i \in 1..26}

\* the upper-case ASCII letter of an ASCII letter
AsciiUpper(c) ==
    IF \E i \in 1..26 : LowerChars[i] = c
    THEN UpperChars[CHOOSE i \in 1..26 : LowerChars[i] = c]
    ELSE c

\* C15: normalize_first_letter returns the upper-cased first character when
\* it is an ASCII letter and '#' for every other input (empty text, digits,
\* punctuation, letters outside ASCII); the result is one of A..Z or '#'.
C15_AsciiLetterOrHash ==
    last.op = "normalize_first_letter" =>
        /\ result \in {UpperChars[i] : i \in 1..26} \cup {"#"}
        /\ result = IF Len(input) > 0 /\ input[1] \in AsciiLetters
                    THEN AsciiUpper(input[1]) ELSE "#"

\* ----------------------------------------- properties of update_reference

\* the references of the term that equal the parsed reference p
EqualReferences(d, term, p) ==
    {r \in d.refs : /\ r.term_id = TermId(d, term)
                    /\ r.book_number = p.book
                    /\ r.page_start = p.page_start
                    /\ r.page_end = p.page_end}

\* the row r carrying the reference p
Carrying(r, p) ==
    [r EXCEPT !.book_number = p.book, !.page_start = p.page_start,
              !.page_end = p.page_end]

\* C16: for an existing term and valid old and new reference texts,
\* update_reference never raises; it returns True exactly when the term had
\* a reference equal to old, also when new equals another reference of the
\* term; on True the matched reference carries new and every other
\* reference is unchanged, on False nothing changes.
C16_UpdateReturnsBoolean ==
    [][last'.op = "update_reference" =>
         \A term \in BookNames, old_reference \in UpdateRefTexts,
            new_reference \in UpdateRefTexts :
            (/\ TermRows(db, term) # {}
             /\ Parse[old_reference].ok
             /\ Parse[new_reference].ok)
            => LET out == update_reference(db, term, old_reference, new_reference)
                   hit == EqualReferences(db, term, Parse[old_reference])
               IN  (db' = out.db /\ last'.ret = out.ret) =>
                   /\ out.ret \in {"True", "False"}
                   /\ out.ret = "True" <=> hit # {}
                   /\ out.ret = "False" => out.db = db
                   /\ out.ret = "True" =>
                         out.db = [db EXCEPT !.refs =
                                      (@ \ hit)
                                      \cup {Carrying(r, Parse[new_reference]) :
                                               r \in hit}]]_vars

\* --------------------------------------------- properties of delete_entry

\* the stored references of the term record named `term` in any casing
RefsNamed(d, term) ==
    {r \in d.refs : \E t \in d.terms : t.id = r.term_id /\ lower(t.term) = lower(term)}

\* those of them that equal the parsed reference p
RefsNamedEqual(d, term, p) ==
    {r \in RefsNamed(d, term) : /\ r.book_number = p.book
                                /\ r.page_start = p.page_start
                                /\ r.page_end = p.page_end}

\* C17: delete_entry(term, ref) deletes exactly the references of the term
\* that equal the parsed ref, an absent pageEnd matching an absent pageEnd
\* only, and leaves every other reference of this and of other terms; it
\* returns True exactly when a reference was deleted. delete_entry(term)
\* deletes all references of the term and none of another term.
C17_DeleteOnlyMatching ==
    [][last'.op = "delete_entry" =>
         \A term \in Names, reference \in UpdateRefTexts \cup {NoReference} :
            (reference = NoReference \/ Parse[reference].ok)
            => LET out == delete_entry(db, term, reference)
                   gone == IF reference = NoReference THEN RefsNamed(db, term)
                           ELSE RefsNamedEqual(db, term, Parse[reference])
               IN  (db' = out.db /\ last'.ret = out.ret) =>
                   /\ db'.refs = db.refs \ gone
                   /\ out.ret \in {"True", "False"}
                   /\ out.ret = "True" <=> gone # {}]_vars

\* a term had a single page and a range that begins on it, and delete_entry
\* removed one of the two
C17_Witness ==
    /\ last = Call("delete_entry", "True")
    /\ db.nextTermId = 2
    /\ db.nextRefId = 3
    /\ Cardinality(db.refs) = 1
    /\ \A r \in db.refs : r.book_number = 1 /\ r.page_start = 1 /\ r.page_end = 2

\* ------------------------------------------ properties of get_all_entries

\* how often the text occurs in the list
Occurrences(texts, x) == Cardinality({k \in 1..Len(texts) : texts[k] = x})

\* the reference text a does not come behind b in (book, pageStart) order
TextNotAfter(a, b) ==
    LET p == parse_reference(a)
        q == parse_reference(b)
    IN  \/ p.book < q.book
        \/ (p.book = q.book /\ p.page_start <= q.page_start)

\* C18: get_all_entries returns exactly one entry for each term that has a
\* reference and none for a term without references; the entries are in
\* case-insensitive term order and the references of an entry, one per
\* stored reference of the term, are ordered by (book, pageStart).
C18_EntriesOfTermsWithReferences ==
    last.op = "get_all_entries" =>
        /\ \A t \in db.terms :
              Cardinality({i \in 1..Len(result) : result[i].term = t.term})
                 = IF RefsOfTerm(db, t.id) # {} THEN 1 ELSE 0
        /\ \A i \in 1..Len(result) :
              \E t \in db.terms :
                 /\ t.term = result[i].term
                 /\ Len(result[i].references) = Cardinality(RefsOfTerm(db, t.id))
                 /\ \A r \in RefsOfTerm(db, t.id) :
                       Occurrences(result[i].references, RowText(r))
                          = Cardinality({q \in RefsOfTerm(db, t.id) :
                                            RowText(q) = RowText(r)})
                 /\ \A k, l \in 1..Len(result[i].references) :
                       k < l => TextNotAfter(result[i].references[k],
                                             result[i].references[l])
        /\ \A i, j \in 1..Len(result) :
              i < j => ~StrLess(lower(result[j].term), lower(result[i].term))

\* the list leaves out a term that has a note only, and shows the two
\* references of another term in page order, not in the order they were added
C18_Witness ==
    /\ last.op = "get_all_entries"
    /\ \E t \in db.terms : RefsOfTerm(db, t.id) = {} /\ t.notes # <<>>
    /\ \E a, b \in db.refs :
          /\ a.term_id = b.term_id
          /\ a.id < b.id
          /\ b.page_start < a.page_start
    /\ Len(result) = 1
    /\ Len(result[1].references) = 2

\* --------------------------------- reference texts that must not be parsed

\* the text does not match the grammar, or its page end is below its start
Inconsistent(text) == ~Match(strip(text)).matched \/ ReversedRange(text)

\* C19: a reference text that does not match the grammar or has
\* pageEnd < pageStart makes delete_entry and update_reference raise the
\* parse error whether or not the term exists: the call never answers
\* False and never modifies the store.
C19_InconsistentTextRaises ==
    [][/\ last'.op = "delete_entry" =>
            \A term \in Names, reference \in UpdateRefTexts :
               Inconsistent(reference)
               => LET out == delete_entry(db, term, reference)
                  IN  (db' = out.db /\ last'.ret = out.ret) =>
                      /\ out.ret \in {"InvalidFormat", "InvalidRange"}
                      /\ out.db = db
       /\ last'.op = "update_reference" =>
            \A term \in BookNames, old_reference \in UpdateRefTexts,
               new_reference \in UpdateRefTexts :
               (Inconsistent(old_reference) \/ Inconsistent(new_reference))
               => LET out == update_reference(db, term, old_reference,
                                              new_reference)
                  IN  (db' = out.db /\ last'.ret = out.ret) =>
                      /\ out.ret \in {"InvalidFormat", "InvalidRange"}
                      /\ out.db = db]_vars

\* ------------------------------------------- add_entry that returns False

\* C20: when add_entry returns False the store is as before the call: no
\* gap exclusion is removed and the terms and the references are the same.
C20_FalseLeavesStore ==
    [][last' = Call("add_entry", "False") =>
         /\ db'.exclusions = db.exclusions
         /\ db'.terms = db.terms
         /\ db'.refs = db.refs]_vars

\* add_entry has returned False for a range that an exclusion overlaps
C20_Witness ==
    /\ last = Call("add_entry", "False")
    /\ \E r \in db.refs, x \in db.exclusions :
          /\ r.page_end # None
          /\ x.book_number = str(r.book_number)
          /\ x.page_start <= r.page_end
          /\ x.page_end >= r.page_start

\* ------------------------------------------- exclusions specification
\* add_entry, update_reference and add_gap_exclusion on one store

ExclBookNumbers == {<<"1">>, <<"2">>}

ExclRefTexts ==
    { <<"1", ":", "1">>, <<"1", ":", "1", "-", "2">>, <<"2", ":", "1">>,
      <<"1", ":", "2">> }

ExclRangeTexts == {<<"1">>, <<"1", "-", "2">>, <<"2", "-", "3">>}

AddEntryOfExcl ==
    \E reference \in ExclRefTexts :
        \E out \in {add_entry(db, <<"Z">>, reference)} : Step("add_entry", out)

UpdateReferenceOfExcl ==
    \E old_reference \in ExclRefTexts, new_reference \in ExclRefTexts :
        \E out \in {update_reference(db, <<"Z">>, old_reference, new_reference)} :
            Step("update_reference", out)

ApiAddGapExclusionOfExcl ==
    \E book_number \in ExclBookNumbers, page_range \in ExclRangeTexts :
        \E out \in {api_add_gap_exclusion(db, book_number, page_range)} :
            Step("api_add_gap_exclusion", out)

NextExcl ==
    \/ AddEntryOfExcl
    \/ UpdateReferenceOfExcl
    \/ ApiAddGapExclusionOfExcl

SpecExcl == Init /\ [][NextExcl]_vars

\* an exclusion of the store covers the page of the book
Excluded(d, book, page) ==
    \E x \in d.exclusions :
        /\ x.book_number = str(book)
        /\ x.page_start <= page
        /\ x.page_end >= page

\* C21: after update_reference(term, old, new) returns True, no exclusion
\* of the new book covers a page of the new range.
C21_UpdateClearsExclusions ==
    [][last' = Call("update_reference", "True") =>
         \A old_reference \in ExclRefTexts, new_reference \in ExclRefTexts :
            LET out == update_reference(db, <<"Z">>, old_reference, new_reference)
                new == Parse[new_reference]
            IN  (db' = out.db /\ out.ret = "True") =>
                \A page \in PagesOfAdd(new.page_start, new.page_end) :
                   ~Excluded(db', new.book, page)]_vars

\* ------------------------------------------ accepted references are positive

\* C22: every reference parse_reference accepts has book >= 1,
\* pageStart >= 1 and pageEnd absent or >= pageStart; texts such as "0:5",
\* "1:0" or "1:5-0" are rejected.
C22_AcceptedArePositive ==
    last.op = "parse_reference" =>
        (result.ok =>
            /\ result.book >= 1
            /\ result.page_start >= 1
            /\ result.page_end = None \/ result.page_end >= result.page_start)

\* ------------------------------------------------------------ escape_latex

\* the replacements dictionary of escape_latex, in its insertion order
LatexReplacements ==
    <<
       [char |-> "&",
        replacement |-> <<"\\", "&">>],
       [char |-> "%",
        replacement |-> <<"\\", "%">>],
       [char |-> "$",
        replacement |-> <<"\\", "$">>],
       [char |-> "#",
        replacement |-> <<"\\", "#">>],
       [char |-> "_",
        replacement |-> <<"\\", "_">>],
       [char |-> "{",
        replacement |-> <<"\\", "{">>],
       [char |-> "}",
        replacement |-> <<"\\", "}">>],
       [char |-> "~",
        replacement |-> <<"\\", "t", "e", "x", "t", "a", "s", "c", "i", "i", "t",
            "i", "l", "d", "e", "{", "}">>],
       [char |-> "^",
        replacement |-> <<"\\", "t", "e", "x", "t", "a", "s", "c", "i", "i", "c",
            "i", "r", "c", "u", "m", "{", "}">>],
       [char |-> "\\",
        replacement |-> <<"\\", "t", "e", "x", "t", "b", "a", "c", "k", "s", "l",
            "a", "s", "h", "{", "}">>] >>

\* text.replace(char, replacement) for a one-character `char`
RECURSIVE replace(_, _, _)
replace(text, char, replacement) ==
    IF text = <<>> THEN <<>>
    ELSE (IF Head(text) = char THEN replacement ELSE <<Head(text)>>)
         \o replace(Tail(text), char, replacement)

\* for char, replacement in replacements.items(): text = text.replace(...)
RECURSIVE ReplaceFrom(_, _)
ReplaceFrom(text, i) ==
    IF i > Len(LatexReplacements) THEN text
    ELSE ReplaceFrom(replace(text, LatexReplacements[i].char,
                             LatexReplacements[i].replacement), i + 1)

escape_latex(text) == ReplaceFrom(text, 1)

\* ---------------------------------------------- escape_latex specification

MaxLatexLen == 3

LatexAlphabet == {"a", "&", "_", "{", "~", "\\"}

LatexTexts == UNION {[1..n -> LatexAlphabet] : n \in 0..MaxLatexLen}

InitLatex ==
    /\ db = init_database
    /\ last = Call("init", "None")
    /\ result = <<>>
    /\ input \in LatexTexts

EscapeLatex ==
    /\ last.op = "init"
    /\ result' = escape_latex(input)
    /\ last' = Call("escape_latex", "str")
    /\ UNCHANGED <<db, input>>

NextLatex == EscapeLatex

SpecLatex == InitLatex /\ [][NextLatex]_vars

\* the escape sequence of one character, the character itself if it has none
EscapeOf(c) ==
    IF \E i \in 1..Len(LatexReplacements) : LatexReplacements[i].char = c
    THEN LatexReplacements[CHOOSE i \in 1..Len(LatexReplacements) :
                              LatexReplacements[i].char = c].replacement
    ELSE <<c>>

\* the character-by-character substitution
RECURSIVE Substituted(_)
Substituted(text) ==
    IF text = <<>> THEN <<>>
    ELSE EscapeOf(Head(text)) \o Substituted(Tail(text))

\* C23: escape_latex(text) equals the character-by-character substitution:
\* each special character is replaced by its escape sequence, every other
\* character is kept, and no character a replacement introduced is escaped
\* a second time.
C23_EscapeOnce ==
    last.op = "escape_latex" => result = Substituted(input)

\* --------------------------------------------------------------- import_csv

\* text.split(sep) for a one-character separator
RECURSIVE split(_, _)
split(text, sep) ==
    IF IndexOf(text, sep) = 0 THEN <<text>>
    ELSE <<SubSeq(text, 1, IndexOf(text, sep) - 1)>>
         \o split(SubSeq(text, IndexOf(text, sep) + 1, Len(text)), sep)

\* references = [ref.strip() for ref in parts[1:]]
ReferencesOf(parts) == [k \in 1..(Len(parts) - 1) |-> strip(parts[k + 1])]

ImportError(line_num, kind) == [line_num |-> line_num, kind |-> kind]

\* ImportRef that drops a reference that does not parse without an error
ImportRefSilent(acc, term, ref, line_num) ==
    IF ref = <<>> THEN acc
    ELSE LET out == add_entry_text(acc.db, term, ref)
         IN  IF out.ret = "True"
             THEN [acc EXCEPT !.db = out.db, !.imported = @ + 1]
             ELSE IF out.ret = "False"
             THEN [acc EXCEPT !.db = out.db, !.skipped = @ + 1]
             ELSE acc

\* the body of `for ref in references`
ImportRef(acc, term, ref, line_num) ==
    IF ref = <<>> THEN acc
    ELSE LET out == add_entry_text(acc.db, term, ref)
         IN  IF out.ret = "True"
             THEN [acc EXCEPT !.db = out.db, !.imported = @ + 1]
             ELSE IF out.ret = "False"
             THEN [acc EXCEPT !.db = out.db, !.skipped = @ + 1]
             ELSE \* except ValueError
                  [acc EXCEPT !.errors = Append(@, ImportError(line_num, "ref"))]

RECURSIVE ImportRefs(_, _, _, _, _)
ImportRefs(acc, term, references, k, line_num) ==
    IF k > Len(references) THEN acc
    ELSE ImportRefs(ImportRef(acc, term, references[k], line_num),
                    term, references, k + 1, line_num)

\* the body of `for line_num, line in enumerate(lines, 1)`
ImportLine(acc, line_num, raw) ==
    LET line == strip(raw)
        parts == split(line, ",")
        term == strip(parts[1])
        references == ReferencesOf(parts)
    IN  IF line = <<>> THEN acc
        ELSE IF Len(parts) < 2
        THEN [acc EXCEPT !.errors = Append(@, ImportError(line_num, "format"))]
        ELSE IF term = <<>>
        THEN [acc EXCEPT !.errors = Append(@, ImportError(line_num, "term"))]
        ELSE IF \A k \in 1..Len(references) : references[k] = <<>>
        THEN [acc EXCEPT !.errors = Append(@, ImportError(line_num, "references"))]
        ELSE ImportRefs(acc, term, references, 1, line_num)

RECURSIVE ImportLines(_, _, _)
ImportLines(acc, lines, line_num) ==
    IF line_num > Len(lines) THEN acc
    ELSE ImportLines(ImportLine(acc, line_num, lines[line_num]),
                     lines, line_num + 1)

\* /api/import: the store it leaves, the status and the counts it answers
import_csv(d, text) ==
    LET csv_data == strip(text)
        acc == ImportLines([db |-> d, imported |-> 0, skipped |-> 0,
                            errors |-> <<>>],
                           split(csv_data, "\n"), 1)
    IN  IF csv_data = <<>>
        THEN [db |-> d, ret |-> "400", imported |-> 0, skipped |-> 0,
              errors |-> <<>>]
        ELSE [db |-> acc.db, ret |-> "200", imported |-> acc.imported,
              skipped |-> acc.skipped, errors |-> acc.errors]

\* ------------------------------------------------------ import specification

MaxLines == 3

\* lines of the posted text: a reference; a text that is no reference and
\* then a reference; a range twice; a lone term; no term; no references; an
\* empty line; a reversed range and then a reference of another term
CsvLines ==
    { <<"Z", ",", "1", ":", "1">>,
      <<"Z", ",", "x", ",", "1", ":", "2">>,
      <<"Z", ",", "1", ":", "1", "-", "2", ",", " ", "1", ":", "1", "-", "2">>,
      <<"Z">>,
      <<",", "1", ":", "1">>,
      <<"Z", ",", ",">>,
      <<>>,
      <<"a", "p", ",", "1", ":", "2", "-", "1", ",", "2", ":", "1">> }

RECURSIVE JoinLines(_)
JoinLines(lines) ==
    IF lines = <<>> THEN <<>>
    ELSE IF Len(lines) = 1 THEN lines[1]
    ELSE lines[1] \o <<"\n">> \o JoinLines(Tail(lines))

CsvTexts == {JoinLines(ls) : ls \in UNION {[1..n -> CsvLines] : n \in 0..MaxLines}}

InitImport ==
    /\ db = init_database
    /\ last = Call("init", "None")
    /\ result = <<>>
    /\ input \in CsvTexts

ImportCsv ==
    /\ last.op = "init"
    /\ \E out \in {import_csv(db, input)} :
          /\ db' = out.db
          /\ last' = Call("import_csv", out.ret)
          /\ result' = [imported |-> out.imported, skipped |-> out.skipped,
                        errors |-> out.errors]
    /\ UNCHANGED input

NextImport == ImportCsv

SpecImport == InitImport /\ [][NextImport]_vars

\* the lines of the posted text, and the fields of one of them
PostedLines == split(strip(input), "\n")

Fields(n) == split(strip(PostedLines[n]), ",")

\* line n is accepted: it has a term and a non-empty reference
Accepted(n) ==
    /\ Len(Fields(n)) >= 2
    /\ strip(Fields(n)[1]) # <<>>
    /\ \E k \in 2..Len(Fields(n)) : strip(Fields(n)[k]) # <<>>

\* the non-empty references of the accepted lines: <<line, field>>
PostedReferences ==
    UNION {{<<n, k>> : k \in {j \in 2..Len(Fields(n)) : strip(Fields(n)[j]) # <<>>}} :
              n \in {m \in 1..Len(PostedLines) : Accepted(m)}}

ReferenceErrors == {i \in 1..Len(result.errors) : result.errors[i].kind = "ref"}

\* the reference of field k of line n is stored for the term of the line
StoredFor(n, k) ==
    LET p == parse_reference(Fields(n)[k])
    IN  \E r \in db.refs, t \in TermRows(db, strip(Fields(n)[1])) :
           /\ r.term_id = t.id
           /\ r.book_number = p.book
           /\ r.page_start = p.page_start
           /\ r.page_end = p.page_end

\* C24: the import continues past a bad row: each reference that does not
\* parse adds one error, every valid reference of an accepted line is
\* stored afterwards, the store holds one reference per imported one, and
\* imported + skipped + the reference errors is the number of non-empty
\* references on the accepted lines.
C24_ImportContinues ==
    last = Call("import_csv", "200") =>
        /\ Cardinality(ReferenceErrors)
              = Cardinality({x \in PostedReferences :
                                ~parse_reference(Fields(x[1])[x[2]]).ok})
        /\ \A i \in ReferenceErrors :
              \E x \in PostedReferences :
                 /\ x[1] = result.errors[i].line_num
                 /\ ~parse_reference(Fields(x[1])[x[2]]).ok
        /\ \A x \in PostedReferences :
              parse_reference(Fields(x[1])[x[2]]).ok => StoredFor(x[1], x[2])
        /\ Cardinality(db.refs) = result.imported
        /\ result.imported + result.skipped + Cardinality(ReferenceErrors)
              = Cardinality(PostedReferences)

\* an import with a reference that does not parse, a valid reference behind
\* it on the same line that is stored, a later line whose reference is
\* stored and a duplicate that is counted as skipped
C24_Witness ==
    /\ last = Call("import_csv", "200")
    /\ result.skipped >= 1
    /\ \E x, y, z \in PostedReferences :
          /\ ~parse_reference(Fields(x[1])[x[2]]).ok
          /\ y[1] = x[1] /\ y[2] > x[2] /\ StoredFor(y[1], y[2])
          /\ z[1] > x[1] /\ StoredFor(z[1], z[2])

\* ---------------------------------------------------- custom properties

\* SELECT COALESCE(MAX(display_order), -1) + 1 FROM custom_properties
add_custom_property(d) ==
    LET orders == {p.display_order : p \in d.props}
        next_order == IF orders = {} THEN 0
                      ELSE (CHOOSE m \in orders : \A o \in orders : o <= m) + 1
    IN  Outcome([d EXCEPT !.props = @ \cup {[id |-> d.nextCustomId,
                                             display_order |-> next_order]},
                          !.nextCustomId = @ + 1],
                "id")

delete_custom_property(d, property_id) ==
    Outcome([d EXCEPT !.props = {p \in @ : p.id # property_id}],
            IF \E p \in d.props : p.id = property_id THEN "True" ELSE "False")

\* for order, property_id in enumerate(property_ids): UPDATE ... WHERE id = ?
\* leaves a row with the index of the last place the list names it at
OrderAfter(property_ids, row) ==
    IF \E k \in 1..Len(property_ids) : property_ids[k] = row.id
    THEN (CHOOSE k \in 1..Len(property_ids) :
             /\ property_ids[k] = row.id
             /\ \A j \in (k + 1)..Len(property_ids) : property_ids[j] # row.id) - 1
    ELSE row.display_order

reorder_custom_properties(d, property_ids) ==
    Outcome([d EXCEPT !.props =
                {[p EXCEPT !.display_order = OrderAfter(property_ids, p)] : p \in @}],
            "True")

delete_book_custom_property(d, property_id) ==
    Outcome([d EXCEPT !.book_props = {p \in @ : p.id # property_id}],
            IF \E p \in d.book_props : p.id = property_id THEN "True" ELSE "False")

\* UPDATE ... WHERE id = ? AND book_number = ?
reorder_book_custom_properties(d, book_number, property_ids) ==
    Outcome([d EXCEPT !.book_props =
                {IF p.book_number = book_number
                 THEN [p EXCEPT !.display_order = OrderAfter(property_ids, p)]
                 ELSE p : p \in @}],
            "True")

\* ------------------------------------------- custom properties specification

MaxCustomId == 3

PropertyIdLists == UNION {[1..n -> 1..MaxCustomId] : n \in 0..2}

PropBooks == {1, 2}

StepProps(op, out) ==
    /\ out.db.nextCustomId <= MaxCustomId + 1
    /\ out.db.nextPropId <= MaxCustomId + 1
    /\ db' = out.db
    /\ last' = Call(op, out.ret)
    /\ UNCHANGED <<result, input>>

AddCustomProperty ==
    \E out \in {add_custom_property(db)} : StepProps("add_custom_property", out)

DeleteCustomProperty ==
    \E property_id \in 1..MaxCustomId :
        \E out \in {delete_custom_property(db, property_id)} :
            StepProps("delete_custom_property", out)

ReorderCustomProperties ==
    \E property_ids \in PropertyIdLists :
        \E out \in {reorder_custom_properties(db, property_ids)} :
            StepProps("reorder_custom_properties", out)

AddBookCustomProperty ==
    \E book_number \in PropBooks :
        \E out \in {add_book_custom_property(db, book_number)} :
            StepProps("add_book_custom_property", out)

DeleteBookCustomProperty ==
    \E property_id \in 1..MaxCustomId :
        \E out \in {delete_book_custom_property(db, property_id)} :
            StepProps("delete_book_custom_property", out)

ReorderBookCustomProperties ==
    \E book_number \in PropBooks, property_ids \in PropertyIdLists :
        \E out \in {reorder_book_custom_properties(db, book_number, property_ids)} :
            StepProps("reorder_book_custom_properties", out)

NextProps ==
    \/ AddCustomProperty
    \/ DeleteCustomProperty
    \/ ReorderCustomProperties
    \/ AddBookCustomProperty
    \/ DeleteBookCustomProperty
    \/ ReorderBookCustomProperties

SpecProps == Init /\ [][NextProps]_vars

\* C25: no two global custom properties have the same display_order, and
\* no two custom properties of one book have the same display_order.
C25_UniqueDisplayOrder ==
    /\ \A p, q \in db.props :
          p.id # q.id => p.display_order # q.display_order
    /\ \A p, q \in db.book_props :
          (p.id # q.id /\ p.book_number = q.book_number)
          => p.display_order # q.display_order

\* ----------------------------------------- add_entry, transaction by transaction
\* add_entry commits the INSERT on its own connection and then calls
\* remove_exclusions_for_page once per page, each call a connection and a
\* transaction of its own; requests of other threads run in between.
\* `input` is the call in flight: <<>> when there is none, else the record
\* [book, pages, todo, before] of the book and pages of the inserted
\* reference, the pages still to be cleared and the exclusions stored when
\* the call began.

\* the INSERT and conn.commit() of add_entry
add_entry_insert(d, term, p) ==
    LET out == AddEntryParsed(d, term, p)
    IN  Outcome([out.db EXCEPT !.exclusions = d.exclusions], out.ret)

InitConc ==
    /\ db = api_add_book(init_database, <<"1">>, MaxPage).db
    /\ last = Call("init", "None")
    /\ result = <<>>
    /\ input = <<>>

AddEntryInsert ==
    /\ input = <<>>
    /\ \E reference \in ExclRefTexts :
          \E out \in {add_entry_insert(db, <<"Z">>, Parse[reference])} :
             /\ WithinBounds(out.db)
             /\ db' = out.db
             /\ IF out.ret = "True"
                THEN /\ input' = [book |-> Parse[reference].book,
                                  pages |-> PagesOfAdd(Parse[reference].page_start,
                                                       Parse[reference].page_end),
                                  todo |-> PagesOfAdd(Parse[reference].page_start,
                                                      Parse[reference].page_end),
                                  before |-> db.exclusions]
                     /\ last' = Call("add_entry", "commit")
                ELSE /\ input' = <<>>
                     /\ last' = Call("add_entry", out.ret)
    /\ UNCHANGED result

AddEntryRemoveExclusions ==
    /\ input # <<>>
    /\ input.todo # {}
    /\ LET page == CHOOSE p \in input.todo : \A q \in input.todo : p <= q
       IN  /\ db' = [db EXCEPT !.exclusions =
                        remove_exclusions_for_page(@, input.book, page)]
           /\ input' = [input EXCEPT !.todo = @ \ {page}]
    /\ last' = Call("remove_exclusions_for_page", "int")
    /\ UNCHANGED result

AddEntryReturn ==
    /\ input # <<>>
    /\ input.todo = {}
    /\ input' = <<>>
    /\ last' = Call("add_entry", "True")
    /\ UNCHANGED <<db, result>>

ApiAddGapExclusionConc ==
    /\ \E page_range \in ExclRangeTexts :
          \E out \in {api_add_gap_exclusion(db, <<"1">>, page_range)} :
             /\ WithinBounds(out.db)
             /\ db' = out.db
             /\ last' = Call("api_add_gap_exclusion", out.ret)
    /\ UNCHANGED <<result, input>>

GetGapAnalysisConc ==
    /\ \E out \in {get_gap_analysis(db)} :
          /\ result' = out.results
          /\ last' = Call("get_gap_analysis", "list")
    /\ UNCHANGED <<db, input>>

NextConc ==
    \/ AddEntryInsert
    \/ AddEntryRemoveExclusions
    \/ AddEntryReturn
    \/ ApiAddGapExclusionConc
    \/ GetGapAnalysisConc

SpecConc == InitConc /\ [][NextConc]_vars

\* the analysis in `result` lists the exclusion x
Reported(x) ==
    \E i \in 1..Len(result) :
        /\ result[i].book_number = x.book_number
        /\ \E k \in 1..Len(result[i].excluded_ranges) :
              result[i].excluded_ranges[k] = FormatRange(x.page_start, x.page_end)

\* C26: add_entry is one atomic mutation: an operation that runs while the
\* call is in flight never sees the new reference committed together with
\* an exclusion, stored before the call, that covers one of its pages.
C26_AddEntryAtomic ==
    (last.op = "get_gap_analysis" /\ input # <<>>) =>
        ~\E x \in db.exclusions \cap input.before :
            /\ x.book_number = str(input.book)
            /\ \E page \in input.pages : x.page_start <= page /\ x.page_end >= page
            /\ Reported(x)

\* ------------------------------------------ delete_entry and other terms

\* C27: delete_entry(term, ...) leaves every other term untouched: a term
\* whose name differs case-insensitively from `term`, a term with a note
\* and no references included, still exists with the same note afterwards,
\* whether the call returns True or False.
C27_OtherTermsUntouched ==
    [][(last'.op = "delete_entry" /\ ~(db.terms \subseteq db'.terms)) =>
         \A term \in Names, reference \in RefTexts \cup {NoReference} :
            LET out == delete_entry(db, term, reference)
            IN  (db' = out.db /\ last'.ret = out.ret) =>
                \A t \in db.terms :
                   NoCase[t.term] # NoCase[term] => t \in db'.terms]_vars

\* -------------------------------------- add_entry and the other exclusions

\* C28: a successful add_entry changes the excluded status only of the
\* pages of the added range: a page of the book outside the range that an
\* exclusion covered before the call is still covered afterwards, and the
\* exclusions of other books are unchanged.
C28_OnlyAddedPagesCleared ==
    [][last' = Call("add_entry", "True") =>
         \A reference \in ExclRefTexts :
            LET out == add_entry(db, <<"Z">>, reference)
                p == Parse[reference]
            IN  (db' = out.db /\ out.ret = "True") =>
                /\ \A page \in 1..MaxPage :
                      (/\ page \notin PagesOfAdd(p.page_start, p.page_end)
                       /\ Excluded(db, p.book, page))
                      => Excluded(db', p.book, page)
                /\ {x \in db'.exclusions : x.book_number # str(p.book)}
                      = {x \in db.exclusions : x.book_number # str(p.book)}]_vars

\* --------------------------------------------------------------- /api/update

\* update_entry of web_app.py on the stripped fields of the request: the
\* store it leaves and the status of its response
api_update(d, term, old_term_field, old_reference, new_reference) ==
    LET old_term == IF old_term_field = <<>> THEN term ELSE old_term_field
        ValueErrors == {"InvalidFormat", "InvalidRange"}
    IN  IF term = <<>> \/ old_reference = <<>> \/ new_reference = <<>>
        THEN Outcome(d, "400")
        ELSE IF lower(old_term) # lower(term)
        THEN LET deleted == delete_entry(d, old_term, old_reference)
                 added == add_entry(deleted.db, term, new_reference)
             IN  IF deleted.ret \in ValueErrors THEN Outcome(deleted.db, "400")
                 ELSE IF deleted.ret = "False" THEN Outcome(deleted.db, "404")
                 ELSE IF added.ret \in ValueErrors THEN Outcome(added.db, "400")
                 ELSE Outcome(added.db, "200")
        ELSE LET updated == update_reference(d, term, old_reference, new_reference)
             IN  IF updated.ret \in ValueErrors THEN Outcome(updated.db, "400")
                 ELSE IF updated.ret = "IntegrityError"
                 THEN \* not caught by the handler
                      Outcome(updated.db, "500")
                 ELSE IF updated.ret = "False" THEN Outcome(updated.db, "404")
                 ELSE Outcome(updated.db, "200")

ApiUpdate ==
    \E term \in BookNames, old_term \in BookNames \cup {<<>>},
       old_reference \in UpdateRefTexts, new_reference \in UpdateRefTexts :
        \E out \in {api_update(db, term, old_term, old_reference, new_reference)} :
            Step("api_update", out)

NextUpdate ==
    \/ AddEntryOfRefs
    \/ ApiUpdate

SpecUpdate == Init /\ [][NextUpdate]_vars

\* C29: an update request that ends with an error response leaves the
\* store unchanged: the terms and the references are as before, so the old
\* reference of old_term is still stored after a 400 response to a request
\* that renames the term and carries a new_reference that does not parse.
C29_ErrorLeavesStore ==
    [][(last'.op = "api_update" /\ last'.ret \in {"400", "404", "500"}) =>
         /\ db'.terms = db.terms
         /\ db'.refs = db.refs]_vars

\* --------------------------------------------------------------- delete_notes

\* delete_notes_cleanup that does not look at the references
delete_notes_cleanup_any(term_rows, ref_rows, term) ==
    {t \in term_rows : ~(NoCase[t.term] = NoCase[term] /\ t.notes = <<>>)}

\* DELETE FROM terms WHERE term = ? COLLATE NOCASE AND notes = ""
\*   AND id NOT IN (SELECT DISTINCT term_id FROM page_references)
delete_notes_cleanup(term_rows, ref_rows, term) ==
    {t \in term_rows : ~(/\ NoCase[t.term] = NoCase[term]
                         /\ t.notes = <<>>
                         /\ t.id \notin {r.term_id : r \in ref_rows})}

\* UPDATE terms SET notes = "" WHERE term = ? COLLATE NOCASE, then the clean-up
delete_notes(d, term) ==
    LET cleared == {IF NoCase[t.term] = NoCase[term]
                    THEN [t EXCEPT !.notes = <<>>] ELSE t : t \in d.terms}
    IN  Outcome([d EXCEPT !.terms = delete_notes_cleanup(cleared, d.refs, term)],
                IF TermRows(d, term) # {} THEN "True" ELSE "False")

\* ---------------------------------------------- terms and references specification
\* add_entry, update_reference, delete_entry, update_notes, delete_notes,
\* delete_book and clear_all_data on one store

DeleteNotes ==
    \E term \in BookNames :
        \E out \in {delete_notes(db, term)} : Step("delete_notes", out)

NextOwner ==
    \/ AddEntryOfRefs
    \/ UpdateReference
    \/ DeleteEntryOfRefs
    \/ UpdateNotesOfBook
    \/ DeleteNotes
    \/ DeleteBookOfRefs
    \/ ClearAllData

SpecOwner == Init /\ [][NextOwner]_vars

\* C30: every stored reference belongs to exactly one existing term: no
\* operation removes a term that still has a reference.
C30_ReferencesOwned ==
    \A r \in db.refs : Cardinality({t \in db.terms : t.id = r.term_id}) = 1

\* an operation has removed a term while the reference of another term is
\* stored
C30_Witness ==
    /\ last.op \in {"delete_entry", "delete_notes", "delete_book"}
    /\ last.ret = "True"
    /\ db.refs # {}
    /\ Cardinality(db.terms) < db.nextTermId - 1

====
